---- MODULE Spec2Model ----
(***************************************************************************)
(* Batch image editor (components/ImageEditor.tsx, services/               *)
(* geminiService.ts): the ImageEditor component's React state, its event   *)
(* handlers, its effect that re-runs the master analysis, and the remote   *)
(* calls in flight.  One action per handler or per continuation after an   *)
(* await.  Image indices are 0-based as in the source; a sequence s is     *)
(* read at index i as s[i + 1].                                            *)
(***************************************************************************)
EXTENDS Integers, Sequences, FiniteSets, TLC

\* ------------------------------------------------------------------------
\* Bounds of the model
\* ------------------------------------------------------------------------
MaxImages == 2      \* uploaded images in a session
MaxAnalyses == 2    \* master-analysis extraction calls in flight
MaxUploads == 1     \* uploads whose file reading has not finished

\* ------------------------------------------------------------------------
\* Values
\* ------------------------------------------------------------------------
\* useState<number | null>(null): the null master index
NULL == -1

\* `undefined` for the optional fields of a BatchProgress entry
Undefined == "undefined"

\* No service function is called on its own
NoCall == [status |-> "none"]

\* analysisError === null
NoError == "null"

\* Strings are sequences of characters, so that trim() is computed.
SP == " "
sA == <<"A">>
sB == <<"B">>
sC == <<"C">>
sa == <<"a">>
sSpA == <<SP, "A">>

IsSpace(c) == c = SP

RECURSIVE TrimStart(_)
TrimStart(s) ==
    IF s = <<>> THEN <<>>
    ELSE IF IsSpace(Head(s)) THEN TrimStart(Tail(s)) ELSE s

RECURSIVE TrimEnd(_)
TrimEnd(s) ==
    IF s = <<>> THEN <<>>
    ELSE IF IsSpace(s[Len(s)]) THEN TrimEnd(SubSeq(s, 1, Len(s) - 1)) ELSE s

\* String.prototype.trim
Trim(s) == TrimEnd(TrimStart(s))

\* Bounding boxes: fractions of the image size, in tenths.
Box(a, b, c, d) == [x1 |-> a, y1 |-> b, x2 |-> c, y2 |-> d]

\* TextWithBoundingBox
Region(t, b) == [text |-> t, boundingBox |-> b]

\* The files a user can upload.  A file is known by its name; FileInfo gives
\* its pixel size and the text layout the OCR service reads from it.
Files == {"f1", "f2", "f3"}

FileInfo(f) ==
    CASE f = "f1" -> [width |-> 1000, height |-> 500,
                      regions |-> << Region(sA, Box(1, 2, 5, 4)),
                                     Region(sB, Box(0, 5, 3, 6)) >>]
      [] f = "f2" -> [width |-> 200, height |-> 100,
                      regions |-> << Region(sSpA, Box(5, 5, 9, 7)),
                                     Region(sA, Box(0, 0, 2, 1)) >>]
      [] OTHER    -> [width |-> 100, height |-> 100,
                      regions |-> << Region(sa, Box(1, 2, 5, 4)) >>]

\* What the user can type into an edit field
NewTexts == {sA, sC}

\* Errors thrown by extractTextWithBoundingBoxes
MalformedMsg == "The AI could not extract text and location data in the expected format."
TransportMsg == "transport failure"
ExtractErrors == {MalformedMsg}

\* Errors of the batch pipeline
NotFoundMsg == "The text to be changed was not found on this image variant."
ElementMsg == "Image element not found."
BlockedMsg == "Image generation was blocked."
NoImageMsg == "No edited image found in the response."

\* alert() messages of handleSubmit
NoAlert == "none"
SelectAlert == "Please select a master image and at least one image for the batch."
NoChangesAlert == "You haven't made any text changes to apply."

Range(s) == {s[k] : k \in 1..Len(s)}

RECURSIVE SelectSeq2(_, _)
\* Array.prototype.filter with the predicate given as a set of kept values
SelectSeq2(s, keep) ==
    IF s = <<>> THEN <<>>
    ELSE (IF Head(s) \in keep THEN <<Head(s)>> ELSE <<>>) \o SelectSeq2(Tail(s), keep)

VARIABLES
    uploadedImages,     \* sequence of files
    masterIndex,        \* NULL or an index
    batchSelection,     \* Set<number>, in insertion order
    textItems,          \* sequence of TextItem
    isAnalyzing,
    analysisError,
    batchProgress,      \* Record<number, BatchProgress>
    isBatchProcessing,
    alertShown,         \* the modal alert() on screen, or NoAlert
    uploads,            \* handleFileSelect calls awaiting their FileReaders
    analyses,           \* analyzeMasterImage calls awaiting the extraction
    run,                \* the handleSubmit call awaiting a remote call
    arg,                \* a service function called on its own: its argument
    ret                 \* ... and what it returned or threw

\* The call of a service function on its own
pure == << arg, ret >>

\* The state of the component
component == << uploadedImages, masterIndex, batchSelection, textItems, isAnalyzing,
                analysisError, batchProgress, isBatchProcessing, alertShown,
                uploads, analyses, run >>

vars == << uploadedImages, masterIndex, batchSelection, textItems, isAnalyzing,
           analysisError, batchProgress, isBatchProcessing, alertShown,
           uploads, analyses, run, arg, ret >>


\* ------------------------------------------------------------------------
\* Pure helpers
\* ------------------------------------------------------------------------
\* The TextItem list built from an extraction result: extractedText.map(...)
MapTextItems(extractedText) ==
    [k \in 1..Len(extractedText) |->
        [id |-> k - 1,
         original |-> extractedText[k].text,
         modified |-> extractedText[k].text,
         boundingBox |-> extractedText[k].boundingBox]]

\* Mutant of Changes: unchanged items are submitted too
ChangesAll(items) == items

\* textItems.filter(item => item.original !== item.modified)
Changes(items) ==
    SelectSeq2(items, {it \in Range(items) : it.original # it.modified})

\* Mutant of TextChanged: the new text is given to every item
TextChangedAll(items, id, newText) ==
    [k \in 1..Len(items) |-> [items[k] EXCEPT !.modified = newText]]

\* prev.map(item => item.id === id ? {...item, modified: newText} : item)
TextChanged(items, id, newText) ==
    [k \in 1..Len(items) |->
        IF items[k].id = id THEN [items[k] EXCEPT !.modified = newText]
        ELSE items[k]]

\* Mutant of Toggled: the master can be deselected like any other image
ToggledAny(prev, index, master) ==
    IF index \in Range(prev)
    THEN SelectSeq2(prev, Range(prev) \ {index})
    ELSE Append(prev, index)

\* the updater of handleToggleBatchSelection
Toggled(prev, index, master) ==
    IF index \in Range(prev)
    THEN IF index # master THEN SelectSeq2(prev, Range(prev) \ {index}) ELSE prev
    ELSE Append(prev, index)

\* new Set(prev).add(index)
SetAdd(prev, index) ==
    IF index \in Range(prev) THEN prev ELSE Append(prev, index)

\* BatchProgress entries
Loading == [status |-> "loading", result |-> Undefined, error |-> Undefined]
Success(r) == [status |-> "success", result |-> r, error |-> Undefined]
Error(m) == [status |-> "error", result |-> Undefined, error |-> m]

\* Object.fromEntries(Array.from(batchSelection).map(idx => [idx, {status: 'loading'}]))
InitialProgress(sel) == [i \in Range(sel) |-> Loading]

\* prev => ({...prev, [imageIndex]: entry})
SetProgress(prev, imageIndex, entry) ==
    [i \in (DOMAIN prev) \cup {imageIndex} |->
        IF i = imageIndex THEN entry ELSE prev[i]]

\* currentImageTextItems.find(item => item.text.trim() === change.original.trim()),
\* as the position of the region found, 0 when there is none
FoundText(regions, change) ==
    LET hits == {k \in 1..Len(regions) :
                    Trim(regions[k].text) = Trim(change.original)}
    IN IF hits = {} THEN 0 ELSE CHOOSE k \in hits : \A j \in hits : k <= j

\* Mutant of FillRect: x2 and y2 are taken for the width and the height
FillRectCorners(box, width, height) ==
    [x |-> (box.x1 * width) \div 10,
     y |-> (box.y1 * height) \div 10,
     w |-> (box.x2 * width) \div 10,
     h |-> (box.y2 * height) \div 10]

\* ctx.fillRect(rectX, rectY, rectW, rectH) for a box given in tenths
FillRect(box, width, height) ==
    [x |-> (box.x1 * width) \div 10,
     y |-> (box.y1 * height) \div 10,
     w |-> ((box.x2 - box.x1) * width) \div 10,
     h |-> ((box.y2 - box.y1) * height) \div 10]

\* Mutant of MaskBox: the box the item got on the master is filled
MaskBoxOfItem(regions, change, k) == change.boundingBox

\* the box that is filled for a change found at position k of regions
MaskBox(regions, change, k) == regions[k].boundingBox

RECURSIVE BuildMask(_, _, _, _)
\* changes.map(change => ...): the rectangles filled on the canvas and the
\* instruction lines kept by .filter(Boolean), in the order of changes
BuildMask(regions, changes, width, height) ==
    IF changes = <<>> THEN [rects |-> <<>>, lines |-> <<>>]
    ELSE LET change == Head(changes)
             k == FoundText(regions, change)
             rest == BuildMask(regions, Tail(changes), width, height)
         IN IF k # 0
            THEN [rects |-> <<FillRect(MaskBox(regions, change, k), width, height)>>
                              \o rest.rects,
                  lines |-> <<[original |-> change.original,
                               modified |-> change.modified]>> \o rest.lines]
            ELSE rest

\* Mutant of HasMasks: the missing-mask check never throws
HasMasksAlways(mask) == TRUE

\* hasMasks
HasMasks(mask) == Len(mask.rects) > 0

\* Responses of the edit model: the parts of the first candidate and its
\* finish reason
ImagePart == [inlineData |-> "image"]
TextPart == [inlineData |-> Undefined]
EditResponses ==
    { [parts |-> <<ImagePart>>, finishReason |-> "STOP"],
      [parts |-> <<>>, finishReason |-> "SAFETY"],
      [parts |-> <<TextPart>>, finishReason |-> "STOP"] }

\* Mutant of EditImage: the finish reason is looked at before the parts
EditImageBlockFirst(response) ==
    IF response.finishReason # Undefined /\ response.finishReason # "STOP"
    THEN Error(BlockedMsg)
    ELSE LET imgs == {k \in 1..Len(response.parts) :
                         response.parts[k].inlineData # Undefined}
         IN IF imgs # {}
            THEN Success(response.parts[CHOOSE k \in imgs : \A j \in imgs : k <= j].inlineData)
            ELSE Error(NoImageMsg)

\* editImage after the remote call returned: the first inline image part, or
\* the error thrown
EditImage(response) ==
    LET imgs == {k \in 1..Len(response.parts) :
                    response.parts[k].inlineData # Undefined}
    IN IF imgs # {}
       THEN Success(response.parts[CHOOSE k \in imgs : \A j \in imgs : k <= j].inlineData)
       ELSE IF response.finishReason # Undefined /\ response.finishReason # "STOP"
            THEN Error(BlockedMsg)
            ELSE Error(NoImageMsg)

\* The run record of a handleSubmit call that is not running
Idle == [pc |-> "idle", sel |-> <<>>, pos |-> 0, changes |-> <<>>,
         rects |-> <<>>, lines |-> <<>>]


\* ------------------------------------------------------------------------
\* Rendering
\* ------------------------------------------------------------------------
\* The edit form is rendered: not analyzing, no analysis error, some items
FormShown ==
    /\ Len(uploadedImages) > 0
    /\ ~isAnalyzing
    /\ analysisError = NoError
    /\ Len(textItems) > 0

\* imageRefs.current[imageIndex]: an <img> is mounted for every uploaded image
ImageElement(imageIndex) == imageIndex < Len(uploadedImages)

\* The extraction result of a file when the call succeeds
ExtractTextWithBoundingBoxes(file) == FileInfo(file).regions

\* Files still being read by pending uploads
RECURSIVE PendingFiles(_)
PendingFiles(ups) ==
    IF ups = <<>> THEN 0 ELSE Len(Head(ups).files) + PendingFiles(Tail(ups))

\* File lists a user can pick
FileLists == {<<f>> : f \in Files} \cup {<<f, g>> : f \in Files, g \in Files}

Remove(s, k) == SubSeq(s, 1, k - 1) \o SubSeq(s, k + 1, Len(s))

\* ------------------------------------------------------------------------
\* Master analysis: analyzeMasterImage, run by the effect whenever
\* masterIndex or uploadedImages has changed
\* ------------------------------------------------------------------------
\* The synchronous part, up to the await, given the committed state
AnalyzeMasterImage(master, images) ==
    IF master = NULL \/ master >= Len(images)
    THEN UNCHANGED << isAnalyzing, textItems, analysisError, batchProgress, analyses >>
    ELSE /\ isAnalyzing' = TRUE
         /\ textItems' = <<>>
         /\ analysisError' = NoError
         /\ batchProgress' = <<>>
         /\ analyses' = Append(analyses, [selectedFile |-> images[master + 1]])

\* The continuation after the await: the extraction of call k resolved
AnalysisResolved(k) ==
    /\ alertShown = NoAlert
    /\ k \in 1..Len(analyses)
    /\ textItems' = MapTextItems(ExtractTextWithBoundingBoxes(analyses[k].selectedFile))
    /\ isAnalyzing' = FALSE
    /\ analyses' = Remove(analyses, k)
    /\ UNCHANGED pure
    /\ UNCHANGED << uploadedImages, masterIndex, batchSelection, analysisError,
                    batchProgress, isBatchProcessing, alertShown, uploads, run >>

\* The continuation after the await: the extraction of call k threw
AnalysisRejected(k, msg) ==
    /\ alertShown = NoAlert
    /\ k \in 1..Len(analyses)
    /\ analysisError' = msg
    /\ isAnalyzing' = FALSE
    /\ analyses' = Remove(analyses, k)
    /\ UNCHANGED pure
    /\ UNCHANGED << uploadedImages, masterIndex, batchSelection, textItems,
                    batchProgress, isBatchProcessing, alertShown, uploads, run >>

\* ------------------------------------------------------------------------
\* Upload: handleFileSelect
\* ------------------------------------------------------------------------
\* The call up to the await of the FileReaders; the closure keeps masterIndex
HandleFileSelectWithin(files, maxUploads, maxImages) ==
    /\ alertShown = NoAlert
    /\ Len(uploads) < maxUploads
    /\ Len(uploadedImages) + PendingFiles(uploads) + Len(files) <= maxImages
    /\ uploads' = Append(uploads, [files |-> files,
                                   masterIsNull |-> masterIndex = NULL])
    /\ UNCHANGED pure
    /\ UNCHANGED << uploadedImages, masterIndex, batchSelection, textItems,
                    isAnalyzing, analysisError, batchProgress, isBatchProcessing,
                    alertShown, analyses, run >>

\* handleFileSelect within the bounds of the program's specification
HandleFileSelect(files) == HandleFileSelectWithin(files, MaxUploads, MaxImages)

\* The files of upload k are read: setUploadedImages and the effect
FilesRead(k) ==
    /\ alertShown = NoAlert
    /\ k \in 1..Len(uploads)
    /\ Len(analyses) < MaxAnalyses
    /\ LET updated == uploadedImages \o uploads[k].files
           setMaster == uploads[k].masterIsNull /\ Len(updated) > 0
       IN /\ uploadedImages' = updated
          /\ masterIndex' = IF setMaster THEN 0 ELSE masterIndex
          /\ batchSelection' = IF setMaster THEN <<0>> ELSE batchSelection
          /\ AnalyzeMasterImage(masterIndex', updated)
    /\ uploads' = Remove(uploads, k)
    /\ UNCHANGED pure
    /\ UNCHANGED << isBatchProcessing, alertShown, run >>

\* ------------------------------------------------------------------------
\* Selection: handleSelectMaster, handleToggleBatchSelection
\* ------------------------------------------------------------------------
HandleSelectMaster(index) ==
    /\ alertShown = NoAlert
    /\ index \in 0..(Len(uploadedImages) - 1)
    /\ masterIndex' = index
    /\ batchSelection' = SetAdd(batchSelection, index)
    /\ IF index # masterIndex
       THEN /\ Len(analyses) < MaxAnalyses
            /\ AnalyzeMasterImage(index, uploadedImages)
       ELSE UNCHANGED << isAnalyzing, textItems, analysisError, batchProgress,
                         analyses >>
    /\ UNCHANGED pure
    /\ UNCHANGED << uploadedImages, isBatchProcessing, alertShown, uploads, run >>

HandleToggleBatchSelection(index) ==
    /\ alertShown = NoAlert
    /\ index \in 0..(Len(uploadedImages) - 1)
    /\ batchSelection' = Toggled(batchSelection, index, masterIndex)
    /\ UNCHANGED pure
    /\ UNCHANGED << uploadedImages, masterIndex, textItems, isAnalyzing,
                    analysisError, batchProgress, isBatchProcessing, alertShown,
                    uploads, analyses, run >>

\* ------------------------------------------------------------------------
\* Editing: handleTextChange
\* ------------------------------------------------------------------------
HandleTextChange(id, newText) ==
    /\ alertShown = NoAlert
    /\ FormShown
    /\ id \in {textItems[k].id : k \in 1..Len(textItems)}
    /\ textItems' = TextChanged(textItems, id, newText)
    /\ UNCHANGED pure
    /\ UNCHANGED << uploadedImages, masterIndex, batchSelection, isAnalyzing,
                    analysisError, batchProgress, isBatchProcessing, alertShown,
                    uploads, analyses, run >>


\* ------------------------------------------------------------------------
\* Batch run: handleSubmit
\* ------------------------------------------------------------------------
\* Mutant of Validate: the check for text changes is missing
ValidateNoChanges(master, selection, changes) ==
    IF master = NULL \/ Len(selection) = 0 THEN SelectAlert ELSE NoAlert

\* The validation at the head of handleSubmit: the alert raised, or NoAlert
Validate(master, selection, changes) ==
    IF master = NULL \/ Len(selection) = 0 THEN SelectAlert
    ELSE IF Len(changes) = 0 THEN NoChangesAlert
    ELSE NoAlert

\* Mutant of NextPos: an image that ended in error is tried again
NextPosRetry(r, entry) ==
    IF entry.status = "error" THEN r.pos ELSE r.pos + 1

\* Mutant of NextPos: the loop skips the image after the current one
NextPosSkip(r, entry) == r.pos + 2

\* Mutant of NextPos: the try/catch is around the loop, an error leaves it
NextPosAbort(r, entry) ==
    IF entry.status = "error" THEN Len(r.sel) + 1 ELSE r.pos + 1

\* The position the for-of loop moves to after the image at r.pos got `entry`
\* (the try/catch is inside the loop body)
NextPos(r, entry) == r.pos + 1

RECURSIVE Iterate(_, _, _)
\* The loop from position pos up to its next await: every image without an
\* element throws at once and is recorded; the result is the progress map and
\* the position whose extraction call is issued (Len(sel) + 1: loop finished)
Iterate(progress, sel, pos) ==
    IF pos > Len(sel) THEN [progress |-> progress, pos |-> pos]
    ELSE IF ~ImageElement(sel[pos])
         THEN Iterate(SetProgress(progress, sel[pos], Error(ElementMsg)), sel, pos + 1)
         ELSE [progress |-> progress, pos |-> pos]

\* Mutant of Recorded: the outcome is recorded for the current image and for
\* every image after it
RecordedRest(r, entry) ==
    LET rest == [j \in {r.sel[q] : q \in r.pos..Len(r.sel)} |-> entry]
        it == Iterate(rest @@ batchProgress, r.sel, NextPos(r, entry))
    IN /\ batchProgress' = it.progress
       /\ IF it.pos > Len(r.sel)
          THEN /\ isBatchProcessing' = FALSE
               /\ run' = Idle
          ELSE /\ isBatchProcessing' = isBatchProcessing
               /\ run' = [r EXCEPT !.pc = "extract", !.pos = it.pos,
                                   !.rects = <<>>, !.lines = <<>>]

\* Mutant of Recorded: the loop reads the live batchSelection
RecordedLive(r, entry) ==
    LET live == [r EXCEPT !.sel = batchSelection]
        it == Iterate(SetProgress(batchProgress, r.sel[r.pos], entry),
                      live.sel, NextPos(r, entry))
    IN /\ batchProgress' = it.progress
       /\ IF it.pos > Len(live.sel)
          THEN /\ isBatchProcessing' = FALSE
               /\ run' = Idle
          ELSE /\ isBatchProcessing' = isBatchProcessing
               /\ run' = [live EXCEPT !.pc = "extract", !.pos = it.pos,
                                      !.rects = <<>>, !.lines = <<>>]

\* The loop body's end for the image at r.pos: record `entry`, go on with the
\* next image or leave the loop and setIsBatchProcessing(false)
Recorded(r, entry) ==
    LET it == Iterate(SetProgress(batchProgress, r.sel[r.pos], entry),
                      r.sel, NextPos(r, entry))
    IN /\ batchProgress' = it.progress
       /\ IF it.pos > Len(r.sel)
          THEN /\ isBatchProcessing' = FALSE
               /\ run' = Idle
          ELSE /\ isBatchProcessing' = isBatchProcessing
               /\ run' = [r EXCEPT !.pc = "extract", !.pos = it.pos,
                                   !.rects = <<>>, !.lines = <<>>]

\* Mutant of HandleSubmit: the submit button is not disabled during a run
HandleSubmitAnytime ==
    /\ alertShown = NoAlert
    /\ FormShown
    /\ LET changes == Changes(textItems)
           alert == Validate(masterIndex, batchSelection, changes)
       IN IF alert # NoAlert
          THEN /\ alertShown' = alert
               /\ UNCHANGED << batchProgress, isBatchProcessing, run >>
          ELSE LET it == Iterate(InitialProgress(batchSelection), batchSelection, 1)
               IN /\ alertShown' = alertShown
                  /\ batchProgress' = it.progress
                  /\ IF it.pos > Len(batchSelection)
                     THEN /\ isBatchProcessing' = FALSE
                          /\ run' = Idle
                     ELSE /\ isBatchProcessing' = TRUE
                          /\ run' = [pc |-> "extract", sel |-> batchSelection,
                                     pos |-> it.pos, changes |-> changes,
                                     rects |-> <<>>, lines |-> <<>>]
    /\ UNCHANGED pure
    /\ UNCHANGED << uploadedImages, masterIndex, batchSelection, textItems,
                    isAnalyzing, analysisError, uploads, analyses >>

\* The submit button of the rendered form is pressed
HandleSubmit ==
    /\ alertShown = NoAlert
    /\ FormShown
    /\ ~isBatchProcessing
    /\ LET changes == Changes(textItems)
           alert == Validate(masterIndex, batchSelection, changes)
       IN IF alert # NoAlert
          THEN /\ alertShown' = alert
               /\ UNCHANGED << batchProgress, isBatchProcessing, run >>
          ELSE LET it == Iterate(InitialProgress(batchSelection), batchSelection, 1)
               IN /\ alertShown' = alertShown
                  /\ batchProgress' = it.progress
                  /\ IF it.pos > Len(batchSelection)
                     THEN /\ isBatchProcessing' = FALSE
                          /\ run' = Idle
                     ELSE /\ isBatchProcessing' = TRUE
                          /\ run' = [pc |-> "extract", sel |-> batchSelection,
                                     pos |-> it.pos, changes |-> changes,
                                     rects |-> <<>>, lines |-> <<>>]
    /\ UNCHANGED pure
    /\ UNCHANGED << uploadedImages, masterIndex, batchSelection, textItems,
                    isAnalyzing, analysisError, uploads, analyses >>

\* The user closes the alert
DismissAlert ==
    /\ alertShown # NoAlert
    /\ alertShown' = NoAlert
    /\ UNCHANGED pure
    /\ UNCHANGED << uploadedImages, masterIndex, batchSelection, textItems,
                    isAnalyzing, analysisError, batchProgress, isBatchProcessing,
                    uploads, analyses, run >>

\* Mutant of ExtractionResolved: the changes are read from the list as it is
\* when the extraction returns
ExtractionResolvedLive ==
    /\ alertShown = NoAlert
    /\ run.pc = "extract"
    /\ LET imageIndex == run.sel[run.pos]
           info == FileInfo(uploadedImages[imageIndex + 1])
           mask == BuildMask(ExtractTextWithBoundingBoxes(uploadedImages[imageIndex + 1]),
                             Changes(textItems), info.width, info.height)
       IN IF ~HasMasks(mask)
          THEN Recorded(run, Error(NotFoundMsg))
          ELSE /\ run' = [run EXCEPT !.pc = "edit", !.rects = mask.rects,
                                     !.lines = mask.lines]
               /\ UNCHANGED << batchProgress, isBatchProcessing >>
    /\ UNCHANGED pure
    /\ UNCHANGED << uploadedImages, masterIndex, batchSelection, textItems,
                    isAnalyzing, analysisError, alertShown, uploads, analyses >>

\* Step 1 returned for the image at run.pos: build the mask, then either throw
\* (no text found) or call editImage
ExtractionResolved ==
    /\ alertShown = NoAlert
    /\ run.pc = "extract"
    /\ LET imageIndex == run.sel[run.pos]
           info == FileInfo(uploadedImages[imageIndex + 1])
           mask == BuildMask(ExtractTextWithBoundingBoxes(uploadedImages[imageIndex + 1]),
                             run.changes, info.width, info.height)
       IN IF ~HasMasks(mask)
          THEN Recorded(run, Error(NotFoundMsg))
          ELSE /\ run' = [run EXCEPT !.pc = "edit", !.rects = mask.rects,
                                     !.lines = mask.lines]
               /\ UNCHANGED << batchProgress, isBatchProcessing >>
    /\ UNCHANGED pure
    /\ UNCHANGED << uploadedImages, masterIndex, batchSelection, textItems,
                    isAnalyzing, analysisError, alertShown, uploads, analyses >>

\* Step 1 threw for the image at run.pos
ExtractionRejected(msg) ==
    /\ alertShown = NoAlert
    /\ run.pc = "extract"
    /\ Recorded(run, Error(msg))
    /\ UNCHANGED pure
    /\ UNCHANGED << uploadedImages, masterIndex, batchSelection, textItems,
                    isAnalyzing, analysisError, alertShown, uploads, analyses >>

\* The remote edit call returned `response` for the image at run.pos
EditResolved(response) ==
    /\ alertShown = NoAlert
    /\ run.pc = "edit"
    /\ Recorded(run, EditImage(response))
    /\ UNCHANGED pure
    /\ UNCHANGED << uploadedImages, masterIndex, batchSelection, textItems,
                    isAnalyzing, analysisError, alertShown, uploads, analyses >>

\* The remote edit call failed for the image at run.pos
EditRejected ==
    /\ alertShown = NoAlert
    /\ run.pc = "edit"
    /\ Recorded(run, Error(TransportMsg))
    /\ UNCHANGED pure
    /\ UNCHANGED << uploadedImages, masterIndex, batchSelection, textItems,
                    isAnalyzing, analysisError, alertShown, uploads, analyses >>

\* ------------------------------------------------------------------------
\* Specification
\* ------------------------------------------------------------------------
Init ==
    /\ uploadedImages = <<>>
    /\ masterIndex = NULL
    /\ batchSelection = <<>>
    /\ textItems = <<>>
    /\ isAnalyzing = FALSE
    /\ analysisError = NoError
    /\ batchProgress = <<>>
    /\ isBatchProcessing = FALSE
    /\ alertShown = NoAlert
    /\ uploads = <<>>
    /\ analyses = <<>>
    /\ run = Idle
    /\ arg = NoCall
    /\ ret = NoCall

Next ==
    \/ \E files \in FileLists : HandleFileSelect(files)
    \/ \E k \in 1..MaxUploads : FilesRead(k)
    \/ \E index \in 0..(MaxImages - 1) : HandleSelectMaster(index)
    \/ \E index \in 0..(MaxImages - 1) : HandleToggleBatchSelection(index)
    \/ \E k \in 1..MaxAnalyses : AnalysisResolved(k)
    \/ \E k \in 1..MaxAnalyses, msg \in ExtractErrors : AnalysisRejected(k, msg)
    \/ \E id \in 0..1, newText \in NewTexts : HandleTextChange(id, newText)
    \/ HandleSubmit
    \/ DismissAlert
    \/ ExtractionResolved
    \/ \E msg \in ExtractErrors : ExtractionRejected(msg)
    \/ \E response \in EditResponses : EditResolved(response)
    \/ EditRejected

Spec == Init /\ [][Next]_vars


\* ------------------------------------------------------------------------
\* Vocabulary of the properties
\* ------------------------------------------------------------------------
Terminal == {"success", "error"}

\* A batch run is in flight and this step ends its work on the current image
ImageFinished == run.pc # "idle" /\ (run'.pc = "idle" \/ run'.pos # run.pos)

\* This step ends a batch run
RunEnds == isBatchProcessing /\ ~isBatchProcessing'

\* The image a run in flight is working on
CurrentImage == run.sel[run.pos]

\* Every entry of `progress` but the one of `imageIndex` is as it was
OthersKept(imageIndex) ==
    /\ (DOMAIN batchProgress') \ {imageIndex} = (DOMAIN batchProgress) \ {imageIndex}
    /\ \A j \in (DOMAIN batchProgress) \ {imageIndex} : batchProgress'[j] = batchProgress[j]

\* Some region of the image's own extraction equals, after trimming both, the
\* original of one of the submitted changes
TextMatches(imageIndex, changes) ==
    \E c \in Range(changes) :
        \E r \in Range(FileInfo(uploadedImages[imageIndex + 1]).regions) :
            Trim(r.text) = Trim(c.original)

\* ------------------------------------------------------------------------
\* C1  Partial-failure isolation: whatever outcome the current image of a batch
\* run gets (an extraction or matching failure is always 'error', an edit call
\* gives 'success' or 'error'), it is written to that image's entry alone, and
\* the run goes on with the next selected image: it ends only after the last.
\* ------------------------------------------------------------------------
C1_FailureIsolated ==
    [][ImageFinished =>
          /\ CurrentImage \in DOMAIN batchProgress'
          /\ batchProgress'[CurrentImage].status \in Terminal
          /\ (run.pc = "extract" => batchProgress'[CurrentImage].status = "error")
          /\ OthersKept(CurrentImage)
          /\ IF run.pos < Len(run.sel)
             THEN /\ run'.pc = "extract"
                  /\ run'.sel = run.sel
                  /\ run'.pos = run.pos + 1
                  /\ isBatchProcessing'
             ELSE run'.pc = "idle"]_vars

\* A run is past an image that failed and at work on the next one
C1_Witness ==
    /\ run.pc = "edit"
    /\ run.pos = 2
    /\ run.sel[1] \in DOMAIN batchProgress
    /\ batchProgress[run.sel[1]].status = "error"

\* ------------------------------------------------------------------------
\* C2  When a batch run finishes, batchProgress has exactly the indices of the
\* submitted selection, each 'success' or 'error'.
\* ------------------------------------------------------------------------
C2_CompleteAtRunEnd ==
    [][RunEnds =>
          /\ DOMAIN batchProgress' = Range(run.sel)
          /\ \A i \in DOMAIN batchProgress' : batchProgress'[i].status \in Terminal]_vars

\* ------------------------------------------------------------------------
\* C3  Lifecycle: a run starts with every selected index 'loading'; while it
\* runs a 'loading' entry stays or becomes terminal, and a terminal entry is
\* never changed or removed.
\* ------------------------------------------------------------------------
C3_Lifecycle ==
    [][/\ (~isBatchProcessing /\ isBatchProcessing') =>
              batchProgress' = [i \in Range(batchSelection) |-> Loading]
       /\ isBatchProcessing =>
              \A i \in DOMAIN batchProgress :
                  /\ i \in DOMAIN batchProgress'
                  /\ batchProgress[i].status \in Terminal =>
                         batchProgress'[i] = batchProgress[i]
                  /\ batchProgress[i].status = "loading" =>
                         batchProgress'[i].status \in Terminal \cup {"loading"}]_vars

\* ------------------------------------------------------------------------
\* C4  Submit validation: a submission that raises the validation alert
\* changes nothing else (no run, no remote call, batchProgress as it was), and
\* a run starts only with a master, a non-empty selection and some item whose
\* modified text differs from its original.
\* ------------------------------------------------------------------------
C4_SubmitValidated ==
    [][/\ (alertShown = NoAlert /\ alertShown' # NoAlert) =>
              /\ ~isBatchProcessing'
              /\ UNCHANGED << uploadedImages, masterIndex, batchSelection, textItems,
                              isAnalyzing, analysisError, batchProgress,
                              isBatchProcessing, uploads, analyses, run >>
       /\ ((~isBatchProcessing /\ isBatchProcessing') \/ (run.pc = "idle" /\ run'.pc # "idle")) =>
              /\ masterIndex # NULL
              /\ batchSelection # <<>>
              /\ \E k \in 1..Len(textItems) :
                     textItems[k].original # textItems[k].modified]_vars

\* The form was submitted with no text changed and the submission was refused
C4_Witness ==
    /\ alertShown = NoChangesAlert
    /\ \A k \in 1..Len(textItems) : textItems[k].original = textItems[k].modified
    /\ ~isBatchProcessing
    /\ run.pc = "idle"

\* ------------------------------------------------------------------------
\* C5  Once no master analysis is in flight, the textItems are those of the
\* current master's extraction (id, original and box; possibly none).
\* ------------------------------------------------------------------------
C5_ItemsOfCurrentMaster ==
    (analyses = <<>> /\ masterIndex # NULL) =>
        LET fresh == MapTextItems(ExtractTextWithBoundingBoxes(uploadedImages[masterIndex + 1]))
        IN \/ textItems = <<>>
           \/ /\ Len(textItems) = Len(fresh)
              /\ \A k \in 1..Len(fresh) :
                     /\ textItems[k].id = fresh[k].id
                     /\ textItems[k].original = fresh[k].original
                     /\ textItems[k].boundingBox = fresh[k].boundingBox

\* ------------------------------------------------------------------------
\* C6  Selection invariant: whenever a master is set, its index is in
\* batchSelection.
\* ------------------------------------------------------------------------
C6_MasterSelected ==
    masterIndex # NULL => masterIndex \in Range(batchSelection)

\* The master was moved to image 1 and image 0 was then taken out
C6_Witness ==
    /\ masterIndex = 1
    /\ batchSelection = <<1>>

\* ------------------------------------------------------------------------
\* C7  Master analysis and batch processing are never in flight together.
\* ------------------------------------------------------------------------
C7_AnalysisExcludesBatch ==
    /\ ~(isAnalyzing /\ isBatchProcessing)
    /\ ~(analyses # <<>> /\ run.pc # "idle")


\* ------------------------------------------------------------------------
\* The program with a remote service whose batch calls all succeed: every
\* extraction of a batch run returns and every edit call returns an image
\* ------------------------------------------------------------------------
NextCallsSucceed ==
    \/ \E files \in FileLists : HandleFileSelect(files)
    \/ \E k \in 1..MaxUploads : FilesRead(k)
    \/ \E index \in 0..(MaxImages - 1) : HandleSelectMaster(index)
    \/ \E index \in 0..(MaxImages - 1) : HandleToggleBatchSelection(index)
    \/ \E k \in 1..MaxAnalyses : AnalysisResolved(k)
    \/ \E k \in 1..MaxAnalyses, msg \in ExtractErrors : AnalysisRejected(k, msg)
    \/ \E id \in 0..1, newText \in NewTexts : HandleTextChange(id, newText)
    \/ HandleSubmit
    \/ DismissAlert
    \/ ExtractionResolved
    \/ \E response \in {r \in EditResponses : EditImage(r).status = "success"} :
           EditResolved(response)

SpecCallsSucceed == Init /\ [][NextCallsSucceed]_vars

\* ------------------------------------------------------------------------
\* C8  With every extraction and edit call of the run succeeding: at the end
\* of a run over N selected images of which K have a region matching a
\* submitted change, exactly K entries are 'success' and exactly N-K are the
\* no-matching-text 'error', an image's entry being 'success' exactly when its
\* own text matches.
\* ------------------------------------------------------------------------
C8_CountsAtRunEnd ==
    [][RunEnds =>
          LET N == Range(run.sel)
              K == {i \in N : TextMatches(i, run.changes)}
              done == DOMAIN batchProgress'
          IN /\ Cardinality({i \in done : batchProgress'[i].status = "success"})
                    = Cardinality(K)
             /\ Cardinality({i \in done : batchProgress'[i] = Error(NotFoundMsg)})
                    = Cardinality(N \ K)
             /\ \A i \in done :
                    batchProgress'[i].status = "success" <=> i \in K]_vars

\* ------------------------------------------------------------------------
\* C9  When no submitted change matches a region of the current image, the
\* return of its extraction makes its entry 'error' (the no-matching-text
\* message unless the extraction itself failed), no edit call is issued for
\* it, and no other entry changes.
\* ------------------------------------------------------------------------
C9_NoMatchNoEdit ==
    [][(run.pc = "extract" /\ run' # run /\ ~TextMatches(CurrentImage, run.changes)) =>
          /\ ~(run'.pc = "edit" /\ run'.pos = run.pos)
          /\ CurrentImage \in DOMAIN batchProgress'
          /\ batchProgress'[CurrentImage].status = "error"
          /\ batchProgress'[CurrentImage].error \in ExtractErrors \cup {NotFoundMsg}
          /\ OthersKept(CurrentImage)]_vars

\* An image without matching text got the no-matching-text error next to an
\* image of the same run that was edited
C9_Witness ==
    \E i, j \in DOMAIN batchProgress :
        /\ batchProgress[i] = Error(NotFoundMsg)
        /\ batchProgress[j].status = "success"

\* ------------------------------------------------------------------------
\* C10  Region matching: the edit call in flight for an image carries one
\* rectangle and one line per submitted change whose trimmed original equals
\* the trimmed text of some region of that image (at least one such change),
\* in the order of the changes; each rectangle is the box of the first such
\* region of the image's own extraction, scaled to the image.
\* ------------------------------------------------------------------------
C10_MaskFromOwnRegions ==
    run.pc = "edit" =>
        LET info == FileInfo(uploadedImages[CurrentImage + 1])
            regs == info.regions
            Same(r, c) == Trim(r.text) = Trim(c.original)
            matched == SelectSeq(run.changes,
                                 LAMBDA c : \E k \in 1..Len(regs) : Same(regs[k], c))
        IN /\ matched # <<>>
           /\ Len(run.rects) = Len(matched)
           /\ Len(run.lines) = Len(matched)
           /\ \A n \in 1..Len(matched) :
                  /\ run.lines[n].original = matched[n].original
                  /\ run.lines[n].modified = matched[n].modified
                  /\ \E k \in 1..Len(regs) :
                         /\ Same(regs[k], matched[n])
                         /\ \A j \in 1..(k - 1) : ~Same(regs[j], matched[n])
                         /\ run.rects[n] =
                                FillRect(regs[k].boundingBox, info.width, info.height)

\* An edit call is in flight for an image whose matching region is found by
\* trimming and lies elsewhere than the item's box on the master
C10_Witness ==
    /\ run.pc = "edit"
    /\ \E n \in 1..Len(run.changes) :
           LET info == FileInfo(uploadedImages[CurrentImage + 1])
               k == FoundText(info.regions, run.changes[n])
           IN /\ k # 0
              /\ info.regions[k].text # run.changes[n].original
              /\ info.regions[k].boundingBox # run.changes[n].boundingBox
              /\ \E j \in (k + 1)..Len(info.regions) :
                     Trim(info.regions[j].text) = Trim(run.changes[n].original)


\* ------------------------------------------------------------------------
\* Service functions called on their own
\* ------------------------------------------------------------------------
MaxParts == 3       \* content parts of a response of the edit model

\* The call has not returned yet
Pending == [status |-> "pending"]

SeqsUpTo(S, n) == UNION {[1..m -> S] : m \in 0..n}

\* The component as constructed, which a call of a service function on its
\* own leaves alone
ComponentInit ==
    /\ uploadedImages = <<>>
    /\ masterIndex = NULL
    /\ batchSelection = <<>>
    /\ textItems = <<>>
    /\ isAnalyzing = FALSE
    /\ analysisError = NoError
    /\ batchProgress = <<>>
    /\ isBatchProcessing = FALSE
    /\ alertShown = NoAlert
    /\ uploads = <<>>
    /\ analyses = <<>>
    /\ run = Idle

\* --- editImage ----------------------------------------------------------
\* A second inline image part, to tell the first from the others
ImagePart2 == [inlineData |-> "image2"]

\* Responses of the edit model: candidates[0].content.parts (none when there
\* is no candidate) and candidates[0].finishReason
AllEditResponses ==
    [parts : SeqsUpTo({TextPart, ImagePart, ImagePart2}, MaxParts),
     finishReason : {Undefined, "STOP", "SAFETY", "MAX_TOKENS"}]

InitEditImage ==
    /\ ComponentInit
    /\ arg \in AllEditResponses
    /\ ret = Pending

\* editImage handles the response
EditImageReturns ==
    /\ ret = Pending
    /\ ret' = EditImage(arg)
    /\ UNCHANGED arg
    /\ UNCHANGED component

SpecEditImage == InitEditImage /\ [][EditImageReturns]_vars

\* ------------------------------------------------------------------------
\* C11  editImage: with an inline image part in the response the result is
\* success with the first such part, whatever the finish reason; without one
\* it is the 'blocked' error when a finish reason other than STOP is present
\* and the 'no edited image' error when the finish reason is absent or STOP.
\* ------------------------------------------------------------------------
C11_EditOutcome ==
    ret.status # "pending" =>
        LET parts == arg.parts
            IsImage(k) == parts[k].inlineData # Undefined
            hasImage == \E k \in 1..Len(parts) : IsImage(k)
            stopped == arg.finishReason \in {Undefined, "STOP"}
        IN /\ hasImage =>
                 /\ ret.status = "success"
                 /\ \E k \in 1..Len(parts) :
                        /\ IsImage(k)
                        /\ \A j \in 1..(k - 1) : ~IsImage(j)
                        /\ ret.result = parts[k].inlineData
           /\ (~hasImage /\ ~stopped) => ret = Error(BlockedMsg)
           /\ (~hasImage /\ stopped) => ret = Error(NoImageMsg)
           /\ ret.status \in {"success", "error"}

\* editImage returned the first of two different images of a response whose
\* finish reason is not STOP
C11_Witness ==
    /\ ret.status # "pending"
    /\ arg.finishReason = "SAFETY"
    /\ arg.parts = <<TextPart, ImagePart2, ImagePart>>
    /\ ret = Success("image2")


\* --- extractTextWithBoundingBoxes, from the response on ------------------
MaxRegions == 2     \* elements of a JSON array in a response of the OCR model

\* Elements a JSON array of the response can hold: regions as the schema
\* wants them, and objects that lack a field or whose coordinates (in tenths)
\* lie outside [0, 1]
JsonElements ==
    { Region(sA, Box(1, 2, 5, 4)),
      Region(sB, Box(0, 0, 10, 10)),
      [text |-> sA],
      [boundingBox |-> Box(1, 2, 5, 4)],
      Region(sA, [x1 |-> 1, y1 |-> 2, x2 |-> 5]),
      Region(sA, Box(1, 2, 15, 4)),
      Region(sA, Box(-1, 2, 5, 4)) }

\* response.text: absent, a text that is not JSON, or the JSON text of a value
\* (an array of elements, or a value that is no array)
RawResponses ==
    { [kind |-> "undefined", isArray |-> FALSE, items |-> <<>>],
      [kind |-> "garbage", isArray |-> FALSE, items |-> <<>>],
      [kind |-> "json", isArray |-> FALSE, items |-> <<>>] }
    \cup [kind : {"json"}, isArray : {TRUE}, items : SeqsUpTo(JsonElements, MaxRegions)]

\* try { JSON.parse(response.text.trim()) ... return result } catch { throw }
ParseExtraction(raw) ==
    IF raw.kind = "json"
    THEN [status |-> "returned", isArray |-> raw.isArray, items |-> raw.items]
    ELSE [status |-> "thrown", error |-> MalformedMsg]

InitExtract ==
    /\ ComponentInit
    /\ arg \in RawResponses
    /\ ret = Pending

\* extractTextWithBoundingBoxes handles the response
ExtractReturns ==
    /\ ret = Pending
    /\ ret' = ParseExtraction(arg)
    /\ UNCHANGED arg
    /\ UNCHANGED component

SpecExtract == InitExtract /\ [][ExtractReturns]_vars

\* An element has a text and a box whose four coordinates lie within [0, 1]
ConformingRegion(e) ==
    /\ {"text", "boundingBox"} \subseteq DOMAIN e
    /\ \A c \in {"x1", "y1", "x2", "y2"} :
           /\ c \in DOMAIN e.boundingBox
           /\ e.boundingBox[c] \in 0..10

\* A value is an array of conforming elements
ConformingList(v) ==
    /\ v.isArray
    /\ \A k \in 1..Len(v.items) : ConformingRegion(v.items[k])

\* ------------------------------------------------------------------------
\* C12  extractTextWithBoundingBoxes: every list returned is an array whose
\* elements have a text and a box with coordinates within [0, 1], and every
\* response that is not such an array makes the call throw the
\* malformed-response error.
\* ------------------------------------------------------------------------
C12_ExtractionValid ==
    ret.status # "pending" =>
        /\ ret.status = "returned" => ConformingList(ret)
        /\ ~(arg.kind = "json" /\ ConformingList(arg)) =>
               (ret.status = "thrown" /\ ret.error = MalformedMsg)


\* ------------------------------------------------------------------------
\* C13  Master analysis outcome: a resolved analysis sets the items 1:1 from
\* the extracted regions with modified = original, a rejected one sets the
\* analysis error and leaves the (empty) list alone; so whenever
\* analysisError is set the list of items is empty.
\* ------------------------------------------------------------------------
C13_ErrorMeansNoItems ==
    /\ analysisError # NoError => textItems = <<>>
    /\ \A k \in 1..Len(textItems) :
           /\ textItems[k].id = k - 1
           /\ \E f \in Range(uploadedImages) :
                  /\ Len(FileInfo(f).regions) = Len(textItems)
                  /\ textItems[k].original = FileInfo(f).regions[k].text
                  /\ textItems[k].boundingBox = FileInfo(f).regions[k].boundingBox


\* ------------------------------------------------------------------------
\* C14  No automatic retries.  In a batch run every remote call is issued for
\* a new step of a new image: an extraction call only for the first position
\* (at submission) or the position after the one just finished, an edit call
\* only by the return of the extraction of the same position, and an outcome
\* is never recorded without the run moving on; the submitted selection
\* holds each image once.  A trigger of the master analysis adds one
\* extraction call, and the return of one (resolved or rejected) issues none.
\* ------------------------------------------------------------------------
C14_NoRetry ==
    [][/\ (run'.pc = "extract" /\ run' # run) =>
              \/ run.pc = "idle" /\ run'.pos = 1
              \/ /\ run.pc # "idle"
                 /\ run'.pos = run.pos + 1
                 /\ run'.sel = run.sel
                 /\ run'.changes = run.changes
       /\ (run'.pc = "edit" /\ run' # run) =>
              /\ run.pc = "extract"
              /\ run'.pos = run.pos
              /\ run'.sel = run.sel
              /\ batchProgress' = batchProgress
       /\ (run.pc # "idle" /\ run' = run) =>
              \/ CurrentImage \notin DOMAIN batchProgress'
              \/ /\ CurrentImage \in DOMAIN batchProgress
                 /\ batchProgress'[CurrentImage] = batchProgress[CurrentImage]
       /\ run'.pc # "idle" =>
              \A p, q \in 1..Len(run'.sel) : run'.sel[p] = run'.sel[q] => p = q
       /\ (masterIndex' # masterIndex \/ uploadedImages' # uploadedImages) <=>
              Len(analyses') = Len(analyses) + 1
       /\ (Len(analyses') > Len(analyses)) =>
              analyses' = Append(analyses, [selectedFile |-> uploadedImages'[masterIndex' + 1]])
       /\ (isAnalyzing /\ ~isAnalyzing') =>
              \E k \in 1..Len(analyses) : analyses' = Remove(analyses, k)]_vars

\* A run has ended after an image whose extraction failed and one whose edit
\* call was blocked
C14_Witness ==
    /\ run.pc = "idle"
    /\ analysisError = NoError
    /\ \E i, j \in DOMAIN batchProgress :
           /\ batchProgress[i] = Error(MalformedMsg)
           /\ batchProgress[j] = Error(BlockedMsg)


\* ------------------------------------------------------------------------
\* The program with a remote service that answers: a call of a batch run that
\* is in flight eventually returns or fails
\* ------------------------------------------------------------------------
BatchCallReturns ==
    \/ ExtractionResolved
    \/ \E msg \in ExtractErrors : ExtractionRejected(msg)
    \/ \E response \in EditResponses : EditResolved(response)
    \/ EditRejected

\* A remote call of the batch run is in flight
CallInFlight == run.pc # "idle"

\* Weak fairness of BatchCallReturns written out by its definition,
\* []<>~ENABLED <<A>>_vars \/ []<><<A>>_vars, with the state predicate that
\* ENABLED <<BatchCallReturns>>_vars equals in every reachable state: a call
\* in flight can always return (no alert opens while a run is in flight)
CallsReturn == []<>(~CallInFlight) \/ []<><<BatchCallReturns>>_vars

SpecCallsReturn == Spec /\ CallsReturn

\* ------------------------------------------------------------------------
\* C15  Batch termination: with every remote call of the run returning or
\* failing, a run in flight eventually ends, and it ends only with the
\* outcome of the last position of the submitted selection, the positions
\* having been finished one after the other.
\* ------------------------------------------------------------------------
C15_RunTerminates ==
    /\ isBatchProcessing ~> ~isBatchProcessing
    /\ [][/\ RunEnds =>
                 /\ run.pos = Len(run.sel)
                 /\ CurrentImage \in DOMAIN batchProgress'
                 /\ batchProgress'[CurrentImage].status \in Terminal
          /\ (isBatchProcessing /\ isBatchProcessing' /\ run'.pos # run.pos) =>
                 /\ run'.pos = run.pos + 1
                 /\ batchProgress'[CurrentImage].status \in Terminal]_vars

\* A run over two images is at work on the second
C15_Witness ==
    /\ isBatchProcessing
    /\ Len(run.sel) = 2
    /\ run.pos = 2

\* ------------------------------------------------------------------------
\* C16  Selection snapshot: a run works on the batchSelection of the moment of
\* submission. The submission takes the selection as the run's list and as
\* the domain of the progress map; while the run is in flight its list stays
\* as it is whatever is toggled, selected or uploaded, progress is recorded
\* for the run's current image only, and the run goes through its list from
\* the first position to the last.
\* ------------------------------------------------------------------------
C16_SelectionSnapshot ==
    [][/\ (run.pc = "idle" /\ run'.pc # "idle") =>
              /\ run'.sel = batchSelection
              /\ run'.pos = 1
              /\ DOMAIN batchProgress' = Range(batchSelection)
       /\ (run.pc # "idle" /\ run'.pc # "idle") =>
              /\ run'.sel = run.sel
              /\ run'.pos \in {run.pos, run.pos + 1}
       /\ run.pc # "idle" =>
              /\ \A j \in DOMAIN batchProgress' :
                     (j \notin DOMAIN batchProgress \/ batchProgress'[j] # batchProgress[j])
                         => j = CurrentImage
              /\ (run'.pc = "idle" => run.pos = Len(run.sel))]_vars

\* The second image of a run is at work after the selection was changed
C16_Witness ==
    /\ run.pc # "idle"
    /\ run.pos = 2
    /\ batchSelection # run.sel
    /\ Range(batchSelection) # Range(run.sel)

\* This step is a handleSelectMaster of an image other than the master
MasterReselected ==
    \E index \in 0..(MaxImages - 1) : index # masterIndex /\ HandleSelectMaster(index)

\* ------------------------------------------------------------------------
\* C17  A master re-selection made while a batch run is in flight is queued:
\* the step leaves the master index, the EditItem list and the BatchProgress
\* map as they are and starts no master analysis.
\* ------------------------------------------------------------------------
C17_ReselectionQueued ==
    [][(isBatchProcessing /\ MasterReselected) =>
          /\ masterIndex' = masterIndex
          /\ textItems' = textItems
          /\ batchProgress' = batchProgress
          /\ analyses' = analyses
          /\ isAnalyzing' = isAnalyzing]_vars

\* ------------------------------------------------------------------------
\* C18  Uploading additional images while a master is already selected starts
\* no master analysis and leaves the EditItem list and the BatchProgress map
\* unchanged.
\* ------------------------------------------------------------------------
C18_UploadKeepsAnalysis ==
    [][(masterIndex # NULL /\ uploadedImages' # uploadedImages) =>
          /\ masterIndex' = masterIndex
          /\ analyses' = analyses
          /\ isAnalyzing' = isAnalyzing
          /\ textItems' = textItems
          /\ batchProgress' = batchProgress]_vars

\* The list is the mapped extraction result of `file` but for the modified
\* texts: ids are the positions, original and boundingBox are the region's
ItemsOfExtraction(items, file) ==
    LET regions == ExtractTextWithBoundingBoxes(file)
    IN /\ Len(items) = Len(regions)
       /\ \A k \in 1..Len(items) :
              /\ items[k].id = k - 1
              /\ items[k].original = regions[k].text
              /\ items[k].boundingBox = regions[k].boundingBox

BoxCoordinates == {0, 1, 5, 10}

MaskBoxes ==
    {Box(a, b, c, d) : a \in BoxCoordinates, b \in {2, 4},
                       c \in BoxCoordinates, d \in {2, 4}}

\* naturalWidth and naturalHeight of the images, multiples of ten so that the
\* products of the code are whole pixels
CanvasSizes == {[width |-> FileInfo(f).width, height |-> FileInfo(f).height] : f \in Files}

InitFillRect ==
    /\ ComponentInit
    /\ arg \in [box : MaskBoxes, canvas : CanvasSizes]
    /\ ret = Pending

\* rectX, rectY, rectW, rectH are computed and ctx.fillRect is called
FillRectReturns ==
    /\ ret = Pending
    /\ ret' = [status |-> "filled",
               rect |-> FillRect(arg.box, arg.canvas.width, arg.canvas.height)]
    /\ UNCHANGED arg
    /\ UNCHANGED component

SpecFillRect == InitFillRect /\ [][FillRectReturns]_vars

\* ------------------------------------------------------------------------
\* C20  Mask rectangle arithmetic: for the box (x1,y1,x2,y2), in tenths, on a
\* canvas of width W and height H the filled rectangle has origin
\* (x1*W/10, y1*H/10), width (x2-x1)*W/10 and height (y2-y1)*H/10, so that
\* it ends at (x2*W/10, y2*H/10); for the box (0.1,0.2,0.5,0.4) on 1000 by
\* 500 it spans x from 100 to 500 and y from 100 to 200.
\* ------------------------------------------------------------------------
C20_MaskRectangle ==
    ret.status = "filled" =>
        LET b == arg.box
            W == arg.canvas.width
            H == arg.canvas.height
            r == ret.rect
        IN /\ r.x * 10 = b.x1 * W
           /\ r.y * 10 = b.y1 * H
           /\ r.w * 10 = (b.x2 - b.x1) * W
           /\ r.h * 10 = (b.y2 - b.y1) * H
           /\ (r.x + r.w) * 10 = b.x2 * W
           /\ (r.y + r.h) * 10 = b.y2 * H
           /\ (b = Box(1, 2, 5, 4) /\ W = 1000 /\ H = 500) =>
                  /\ r = [x |-> 100, y |-> 100, w |-> 400, h |-> 100]
                  /\ r.x + r.w = 500
                  /\ r.y + r.h = 200

\* The rectangle of the example has been filled
C20_Witness ==
    /\ ret.status = "filled"
    /\ arg.box = Box(1, 2, 5, 4)
    /\ arg.canvas = [width |-> 1000, height |-> 500]

\* ------------------------------------------------------------------------
\* The instruction of the edit call
\* ------------------------------------------------------------------------
\* "I have provided an original image and a version with bright magenta ..."
Preamble == [fixed |-> "preamble"]

\* "Do not alter any part of the image outside the magenta areas."
Postscript == [fixed |-> "postscript"]

\* finalPrompt as its lines: the preamble, specificChanges.join('\n'), the
\* postscript
FinalPrompt(lines) == <<Preamble>> \o lines \o <<Postscript>>

\* ------------------------------------------------------------------------
\* C21  Instruction composition: the instruction of the edit call in flight
\* for an image is the preamble, one line per change of the run that matches
\* on that image, in the order of the EditItem list, naming its original and
\* modified text, and the postscript; the changes of a run are the EditItems
\* whose modified text differs from the original at submission, in list
\* order; an extraction that returns with at least one match leads to the
\* edit call even when other changes do not match.
\* ------------------------------------------------------------------------
C21_Instruction ==
    /\ [](run.pc = "edit" =>
             LET regs == FileInfo(uploadedImages[CurrentImage + 1]).regions
                 matched == SelectSeq(run.changes,
                                LAMBDA c : \E k \in 1..Len(regs) :
                                               Trim(regs[k].text) = Trim(c.original))
             IN /\ matched # <<>>
                /\ FinalPrompt(run.lines) =
                       <<Preamble>>
                       \o [n \in 1..Len(matched) |->
                              [original |-> matched[n].original,
                               modified |-> matched[n].modified]]
                       \o <<Postscript>>)
    /\ [][/\ (run.pc = "idle" /\ run'.pc # "idle") =>
                 /\ run'.changes = SelectSeq(textItems,
                                       LAMBDA it : it.modified # it.original)
                 /\ run'.changes # <<>>
          /\ (ExtractionResolved /\ TextMatches(CurrentImage, run.changes)) =>
                 run'.pc = "edit"]_vars

\* The edit call in flight carries one line although the run has two changes
C21_Witness ==
    /\ run.pc = "edit"
    /\ Len(run.changes) = 2
    /\ Len(FinalPrompt(run.lines)) = 3

\* ------------------------------------------------------------------------
\* C22  The flag of the master analysis is accurate: isAnalyzing is true
\* exactly when at least one extraction call of a master analysis is in
\* flight.
\* ------------------------------------------------------------------------
C22_AnalyzingFlag == isAnalyzing <=> analyses # <<>>

\* ------------------------------------------------------------------------
\* Uploading and selecting, with two uploads being read at once and a third
\* image: the component as long as the form is not submitted
\* ------------------------------------------------------------------------
MaxReading == 2     \* uploads whose file reading has not finished
MaxPicked == 3      \* images picked in a session

NextUploads ==
    \/ \E files \in FileLists : HandleFileSelectWithin(files, MaxReading, MaxPicked)
    \/ \E k \in 1..MaxReading : FilesRead(k)
    \/ \E index \in 0..(MaxPicked - 1) : HandleSelectMaster(index)
    \/ \E index \in 0..(MaxPicked - 1) : HandleToggleBatchSelection(index)
    \/ \E k \in 1..MaxAnalyses : AnalysisResolved(k)
    \/ \E k \in 1..MaxAnalyses, msg \in ExtractErrors : AnalysisRejected(k, msg)

SpecUploads == Init /\ [][NextUploads]_vars

\* ------------------------------------------------------------------------
\* C23  An upload assigns the master (index 0) and the selection ({0}) only
\* when no master is set: the completion of an upload with no master set
\* makes image 0 the master and the selection, and the completion of an
\* upload with a master set, whenever the upload was started, leaves the
\* master index and the batch selection as they are.
\* ------------------------------------------------------------------------
C23_UploadKeepsMaster ==
    [][uploadedImages' # uploadedImages =>
          IF masterIndex = NULL
          THEN masterIndex' = 0 /\ batchSelection' = <<0>>
          ELSE masterIndex' = masterIndex /\ batchSelection' = batchSelection]_vars

\* ------------------------------------------------------------------------
\* C24  Edit snapshot: the replacements of a run are the EditItems active at
\* the moment of submission. The submission takes them from the list; while
\* the run is in flight they stay as they are whatever the user edits and
\* whatever an analysis does to the list, and every line of an edit call in
\* flight names the original and the modified text of one of them.
\* ------------------------------------------------------------------------
C24_EditSnapshot ==
    /\ [][/\ (run.pc = "idle" /\ run'.pc # "idle") =>
                 Range(run'.changes) =
                     {it \in Range(textItems) : it.modified # it.original}
          /\ (run.pc # "idle" /\ run'.pc # "idle") => run'.changes = run.changes]_vars
    /\ [](run.pc = "edit" =>
             \A n \in 1..Len(run.lines) :
                 \E c \in Range(run.changes) :
                     run.lines[n] = [original |-> c.original, modified |-> c.modified])

\* The second image of a run is at work and the changes the list would give
\* now are others than the run's
C24_Witness ==
    /\ run.pc = "edit"
    /\ run.pos = 2
    /\ Changes(textItems) # run.changes

\* ------------------------------------------------------------------------
\* C25  At most one batch run is in flight: a run is in flight exactly while
\* isBatchProcessing is true, a submission is accepted only when it is false,
\* and while a run is in flight no entry of batchProgress is set to
\* 'loading'.
\* ------------------------------------------------------------------------
C25_OneRun ==
    /\ [](isBatchProcessing <=> run.pc # "idle")
    /\ [][/\ HandleSubmit => (~isBatchProcessing /\ run.pc = "idle")
          /\ isBatchProcessing =>
                 \A j \in DOMAIN batchProgress' :
                     batchProgress'[j] = Loading =>
                         (j \in DOMAIN batchProgress /\ batchProgress[j] = Loading)]_vars

\* With a run in flight that has recorded an outcome, the form is shown and
\* holds a submission that would pass the validation
C25_Witness ==
    /\ isBatchProcessing
    /\ run.pos = 2
    /\ FormShown
    /\ alertShown = NoAlert
    /\ Validate(masterIndex, batchSelection, Changes(textItems)) = NoAlert
    /\ \E j \in DOMAIN batchProgress : batchProgress[j].status \in Terminal

\* ------------------------------------------------------------------------
\* C26  Sequential processing: a run works on one image at a time, in the
\* order of its list. A step of the run either issues the edit call for the
\* image whose extraction has returned, or records a terminal outcome for
\* the current image and then issues the extraction call for the next
\* position or ends the run at the last; the images from the current
\* position on have no outcome yet.
\* ------------------------------------------------------------------------
C26_Sequential ==
    /\ [][(run.pc # "idle" /\ run' # run) =>
             \/ /\ run.pc = "extract"
                /\ run'.pc = "edit"
                /\ run'.pos = run.pos
                /\ run'.sel = run.sel
                /\ batchProgress' = batchProgress
             \/ /\ CurrentImage \in DOMAIN batchProgress'
                /\ batchProgress'[CurrentImage].status \in Terminal
                /\ \/ /\ run'.pc = "extract"
                      /\ run'.pos = run.pos + 1
                      /\ run'.sel = run.sel
                   \/ /\ run'.pc = "idle"
                      /\ run.pos = Len(run.sel)]_vars
    /\ [](run.pc # "idle" =>
             \A q \in run.pos..Len(run.sel) :
                 run.sel[q] \in DOMAIN batchProgress =>
                     batchProgress[run.sel[q]] = Loading)

\* The extraction call for the second image is in flight: the first image
\* has its outcome, the second is loading
C26_Witness ==
    /\ run.pc = "extract"
    /\ run.pos = 2
    /\ run.sel[1] \in DOMAIN batchProgress
    /\ batchProgress[run.sel[1]].status \in Terminal
    /\ run.sel[2] \in DOMAIN batchProgress
    /\ batchProgress[run.sel[2]] = Loading

====
